---- MODULE Spec2Model ----
(***************************************************************************)
(* Extension Groups for VS Code: the group store kept by activate(), the   *)
(* tree provider that projects it, the key-value store (globalState) and   *)
(* the export file, with one action per command handler or host callback.  *)
(*                                                                         *)
(* JavaScript objects are modelled by reference: heap maps a location to   *)
(* an ExtensionGroupsState object, and the closure variable `state`, the   *)
(* provider's `this.state` and the value held by globalState are           *)
(* locations, so that two names for one object see each other's writes.    *)
(***************************************************************************)
EXTENDS Integers, Sequences, FiniteSets, TLC

(* ------------------------------ bounds -------------------------------- *)
MaxGroups == 2      \* createGroup is not offered beyond this many groups
MaxClock == 2       \* Date.now() takes the values 1..MaxClock
NumExt == 2         \* installed third-party extensions are 1..NumExt
MaxDrag == 2        \* tree items in one drag gesture
MaxListed == 3      \* groups, and clock values, where the order of groups is studied

(* ----------------------------- constants ------------------------------ *)
UncategorizedId == 0   \* the group id '__uncategorized__' of the synthetic node
BuiltinExt == 0        \* an extension whose id starts with 'vscode.'
NoSyncTime == 0        \* lastSyncTime absent (undefined)
NoRef == 0             \* globalState.get() === undefined

ExtIds == 1..NumExt
AllExtIds == ExtIds \cup {BuiltinExt}
Locs == 1..4

VARIABLES
    heap,            \* location -> ExtensionGroupsState object
    state,           \* `let state` of activate(): a location
    providerState,   \* ExtensionGroupsProvider.state: a location
    globalState,     \* the object globalState holds under 'extensionGroups', or NoRef
    persisted,       \* what globalState has written to storage (JSON text)
    file,            \* extension-groups-sync.json
    clock,           \* Date.now()
    extensionsAll,   \* vscode.extensions.all, in host order
    dataTransfer,    \* the drag payload between handleDrag and handleDrop
    copyOnUpdate,    \* whether globalState.update keeps a JSON copy or the object
    notification,    \* the message shown by the last handler
    requests,        \* host enable/disable requests issued by the last handler
    lastOp,          \* the last handler that ran, its arguments and outcome
    trip,            \* history: the round trip under way (a move and its return,
                     \* an export and its import) and the store it started from
    pending          \* the handler suspended at an await: its position, what it
                     \* holds, and (history) the store it started from and the
                     \* command that ran while it was suspended

vars == <<heap, state, providerState, globalState, persisted, file, clock,
          extensionsAll, dataTransfer, copyOnUpdate, notification, requests, lastOp,
          trip, pending>>

(* ------------------------- values and JSON ---------------------------- *)
\* A JSON value in the `groups` field: an array of groups, or a string.
ArrayValue(items) == [type |-> "array", items |-> items]
StringValue == [type |-> "string", items |-> <<>>]
IsArray(v) == v.type = "array"

NewGroup(id, name) ==
    [id |-> id, name |-> name, extensions |-> <<>>, isActive |-> FALSE]

EmptyState == [groups |-> ArrayValue(<<>>), lastSyncTime |-> NoSyncTime]

\* JSON.stringify of one group: the members of the object in key order.
StringifyGroup(g) ==
    << <<"id", g.id>>, <<"name", g.name>>,
       <<"extensions", g.extensions>>, <<"isActive", g.isActive>> >>

\* A JSON.stringify(state) that writes the groups and nothing else.
StringifyGroupsOnly(obj) ==
    << <<"groups",
         IF IsArray(obj.groups)
         THEN ArrayValue([i \in 1..Len(obj.groups.items) |->
                             StringifyGroup(obj.groups.items[i])])
         ELSE StringValue>> >>

\* JSON.stringify(state): a member whose value is undefined is left out.
Stringify(obj) ==
    LET groupsText ==
            IF IsArray(obj.groups)
            THEN ArrayValue([i \in 1..Len(obj.groups.items) |->
                                StringifyGroup(obj.groups.items[i])])
            ELSE StringValue
    IN  << <<"groups", groupsText>> >> \o
        (IF obj.lastSyncTime = NoSyncTime
         THEN <<>>
         ELSE << <<"lastSyncTime", obj.lastSyncTime>> >>)

HasMember(text, key) == \E i \in 1..Len(text) : text[i][1] = key
Member(text, key) ==
    text[CHOOSE i \in 1..Len(text) :
            /\ text[i][1] = key
            /\ \A j \in (i+1)..Len(text) : text[j][1] # key][2]

ParseGroup(text) ==
    [id |-> Member(text, "id"), name |-> Member(text, "name"),
     extensions |-> Member(text, "extensions"),
     isActive |-> Member(text, "isActive")]

\* JSON.parse of a well-formed text of an ExtensionGroupsState.
Parse(text) ==
    LET g == Member(text, "groups")
    IN  [groups |-> IF IsArray(g)
                    THEN ArrayValue([i \in 1..Len(g.items) |-> ParseGroup(g.items[i])])
                    ELSE StringValue,
         lastSyncTime |-> IF HasMember(text, "lastSyncTime")
                          THEN Member(text, "lastSyncTime")
                          ELSE NoSyncTime]

\* The export file: missing, unparseable, or a JSON text.
MissingFile == [exists |-> FALSE, parseable |-> FALSE, text |-> <<>>]
CorruptFile == [exists |-> TRUE, parseable |-> FALSE, text |-> <<>>]
JsonFile(text) == [exists |-> TRUE, parseable |-> TRUE, text |-> text]
\* {"groups": "not-an-array"}
NotAnArrayFile == JsonFile(<< <<"groups", StringValue>> >>)

NothingPersisted == [present |-> FALSE, text |-> <<>>]

(* ------------------------- array helpers ------------------------------ *)
Includes(s, x) == \E i \in 1..Len(s) : s[i] = x
Filter(s, x) == SelectSeq(s, LAMBDA y : y # x)
\* Array.prototype.findIndex on g.id, 1-based; 0 when there is none (-1).
FindIndex(gs, id) ==
    IF \E i \in 1..Len(gs) : gs[i].id = id
    THEN CHOOSE i \in 1..Len(gs) :
            /\ gs[i].id = id
            /\ \A j \in 1..(i-1) : gs[j].id # id
    ELSE 0
RemoveAt(s, i) == SubSeq(s, 1, i-1) \o SubSeq(s, i+1, Len(s))
\* splice(i, 0, x) with a 1-based i; an index past the end appends.
InsertAt(s, i, x) ==
    IF i > Len(s) THEN Append(s, x)
    ELSE SubSeq(s, 1, i-1) \o <<x>> \o SubSeq(s, i, Len(s))

(* ------------------------------ memory -------------------------------- *)
\* The program's object graph, passed through the statements of a handler.
Memory ==
    [heap |-> heap, state |-> state, provider |-> providerState,
     memento |-> globalState, persisted |-> persisted]

Fresh(m) == CHOOSE l \in Locs : l \notin {m.state, m.provider, m.memento}

\* context.globalState.update('extensionGroups', <object at r>)
GlobalStateUpdate(m, r) ==
    LET text == Stringify(m.heap[r])
        l == Fresh(m)
    IN  IF copyOnUpdate
        THEN [m EXCEPT !.heap[l] = Parse(text), !.memento = l,
                       !.persisted = [present |-> TRUE, text |-> text]]
        ELSE [m EXCEPT !.memento = r,
                       !.persisted = [present |-> TRUE, text |-> text]]

\* extensionGroupsProvider.setState(<object at r>)
SetState(m, r) == [m EXCEPT !.provider = r]

\* The read-back after a write: globalState.get, the shape check, setState.
ProviderRefresh(m) ==
    IF m.memento = NoRef \/ ~IsArray(m.heap[m.memento].groups)
    THEN LET l == Fresh(m)
         IN  SetState([m EXCEPT !.heap[l] = EmptyState], l)
    ELSE SetState(m, m.memento)

UpdateProviderState(m) == ProviderRefresh(m)

\* Locations are renamed in order of first use by state, provider, globalState,
\* and unreferenced objects are dropped.
Canon(m) ==
    LET s == m.state
        p == m.provider
        g == m.memento
        np == IF p = s THEN 1 ELSE 2
        ng == IF g = NoRef THEN NoRef
              ELSE IF g = s THEN 1
              ELSE IF g = p THEN np
              ELSE np + 1
    IN  [heap |-> [l \in Locs |->
                     IF l = 1 THEN m.heap[s]
                     ELSE IF l = np THEN m.heap[p]
                     ELSE IF g # NoRef /\ l = ng THEN m.heap[g]
                     ELSE EmptyState],
         state |-> 1, provider |-> np, memento |-> ng,
         persisted |-> m.persisted]

Commit(m) ==
    LET c == Canon(m)
    IN  /\ heap' = c.heap
        /\ state' = c.state
        /\ providerState' = c.provider
        /\ globalState' = c.memento
        /\ persisted' = c.persisted

MemoryUnchanged == UNCHANGED <<heap, state, providerState, globalState, persisted>>

\* state.groups of the object at r (an array), with the groups replaced.
WithGroups(m, r, gs) == [m EXCEPT !.heap[r].groups = ArrayValue(gs)]

(* ----------------------------- tree items ----------------------------- *)
GroupItem(gid) == [kind |-> "group", groupId |-> gid, extensionId |-> BuiltinExt]
ExtItem(e, gid) == [kind |-> "extension", groupId |-> gid, extensionId |-> e]

NoItem == [kind |-> "none", groupId |-> UncategorizedId, extensionId |-> BuiltinExt]

\* What a handler that only tests `instanceof` learns of a node.
KindOnly(item) == [kind |-> item.kind, groupId |-> UncategorizedId, extensionId |-> BuiltinExt]

IsBuiltin(e) == e = BuiltinExt

\* allGrouped of getChildren: the ids listed by any group.
AllGrouped(gs) ==
    UNION {{gs[i].extensions[j] : j \in 1..Len(gs[i].extensions)} : i \in 1..Len(gs)}

\* getChildren that looks for claimed extensions in the first group only.
UncategorizedFirstGroup(gs, all) ==
    SelectSeq(all, LAMBDA e : ~IsBuiltin(e) /\
                              (gs = <<>> \/ ~Includes(gs[1].extensions, e)))

\* uncategorized of getChildren: the installed, not built-in, unclaimed extensions.
Uncategorized(gs, all) ==
    SelectSeq(all, LAMBDA e : ~IsBuiltin(e) /\ e \notin AllGrouped(gs))

\* getChildren(undefined): one node per group, then Uncategorized if not empty.
RootChildren(gs, all) ==
    [i \in 1..Len(gs) |-> GroupItem(gs[i].id)] \o
    (IF Len(Uncategorized(gs, all)) > 0 THEN <<GroupItem(UncategorizedId)>> ELSE <<>>)

\* getChildren(<group node>)
GroupChildren(gs, all, gid) ==
    IF gid = UncategorizedId
    THEN LET u == Uncategorized(gs, all)
         IN  [i \in 1..Len(u) |-> ExtItem(u[i], UncategorizedId)]
    ELSE IF FindIndex(gs, gid) # 0
    THEN LET g == gs[FindIndex(gs, gid)]
         IN  [i \in 1..Len(g.extensions) |-> ExtItem(g.extensions[i], g.id)]
    ELSE <<>>

GetChildren(gs, all, element) ==
    IF element.kind = "none" THEN RootChildren(gs, all)
    ELSE IF element.kind = "group" THEN GroupChildren(gs, all, element.groupId)
    ELSE <<>>

Range(s) == {s[i] : i \in 1..Len(s)}

\* The nodes the tree view shows: the provider's projection of its state.
\* (this.state.groups.map throws when groups is not an array: nothing is shown.)
VisibleGroupItems ==
    IF IsArray(heap[providerState].groups)
    THEN Range(RootChildren(heap[providerState].groups.items, extensionsAll))
    ELSE {}
VisibleExtItems ==
    IF IsArray(heap[providerState].groups)
    THEN UNION {Range(GroupChildren(heap[providerState].groups.items,
                                    extensionsAll, n.groupId)) : n \in VisibleGroupItems}
    ELSE {}
VisibleItems == VisibleGroupItems \cup VisibleExtItems

(* ------------------------------ handlers ------------------------------ *)
\* The last handler: its name, the tree items and the extension it was given,
\* the drag payload it read, and what came of it.
Op(name, source, target, ext, items, outcome) ==
    [name |-> name, source |-> source, target |-> target, ext |-> ext,
     items |-> items, outcome |-> outcome]

NoOp == Op("activate", NoItem, NoItem, BuiltinExt, <<>>, "done")

HostUnchanged == UNCHANGED <<extensionsAll, copyOnUpdate>>

\* showInputBox: dismissed (undefined) or the text typed.
InputBoxResults ==
    {[given |-> FALSE, text |-> ""]} \cup
    {[given |-> TRUE, text |-> t] : t \in {"", " ", "work"}}
\* createGroup without the test of the name.
TruthyUnchecked(input) == TRUE

\* if (groupName): undefined and the empty string are falsy.
Truthy(input) == input.given /\ input.text # ""

\* extension-groups.createGroup
CreateGroup(input, now) ==
    /\ clock' = now
    /\ requests' = <<>>
    /\ notification' = "none"
    /\ UNCHANGED <<file, dataTransfer>>
    /\ HostUnchanged
    /\ IF ~Truthy(input)
       THEN /\ MemoryUnchanged
            /\ lastOp' = Op("createGroup", NoItem, NoItem, BuiltinExt,
                            <<>>, "dismissed")
       ELSE IF ~IsArray(heap[state].groups)
       THEN /\ MemoryUnchanged
            /\ lastOp' = Op("createGroup", NoItem, NoItem, BuiltinExt,
                            <<>>, "threw")
       ELSE /\ LET m1 == WithGroups(Memory, state,
                             Append(heap[state].groups.items, NewGroup(now, input.text)))
                   m2 == GlobalStateUpdate(m1, m1.state)
                   m3 == UpdateProviderState(m2)
               IN  Commit(m3)
            /\ lastOp' = Op("createGroup", NoItem, NoItem, BuiltinExt,
                            <<>>, "done")

\* showWarningMessage: the button pressed, or undefined when dismissed.
NoAnswer == "undefined"
WarningMessageResults == {"Yes", "No", NoAnswer}

\* A filter that keeps the group it was to remove (=== for !==).
WithoutGroupKept(gs, gid) == SelectSeq(gs, LAMBDA g : g.id = gid)

\* state.groups.filter(g => g.id !== group.groupId)
WithoutGroup(gs, gid) == SelectSeq(gs, LAMBDA g : g.id # gid)

\* extension-groups.deleteGroup
DeleteGroup(group, confirmation) ==
    /\ requests' = <<>>
    /\ notification' = "warning"
    /\ UNCHANGED <<file, dataTransfer, clock>>
    /\ HostUnchanged
    /\ IF confirmation # "Yes"
       THEN /\ MemoryUnchanged
            /\ lastOp' = Op("deleteGroup", KindOnly(group), NoItem, BuiltinExt,
                            <<>>, "dismissed")
       ELSE IF ~IsArray(heap[state].groups)
       THEN /\ MemoryUnchanged
            /\ lastOp' = Op("deleteGroup", KindOnly(group), NoItem, BuiltinExt,
                            <<>>, "threw")
       ELSE /\ LET m1 == WithGroups(Memory, state,
                             WithoutGroup(heap[state].groups.items, group.groupId))
                   m2 == GlobalStateUpdate(m1, m1.state)
                   m3 == UpdateProviderState(m2)
               IN  Commit(m3)
            /\ lastOp' = Op("deleteGroup", group, NoItem, BuiltinExt,
                            <<>>, "done")

\* The extensions offered by the quick pick of addExtension.
QuickPickItems == {e \in Range(extensionsAll) : ~IsBuiltin(e)}

\* targetGroup.extensions.push(id) on the group found by id
AddMember(gs, gid, e) ==
    [gs EXCEPT ![FindIndex(gs, gid)].extensions = Append(@, e)]

\* The guard of addExtension: the group exists and does not list the extension.
CanAddMember(gs, gid, e) ==
    /\ FindIndex(gs, gid) # 0
    /\ ~Includes(gs[FindIndex(gs, gid)].extensions, e)

\* showQuickPick: dismissed (undefined) or one of the items offered.
QuickPickResults ==
    {[picked |-> FALSE, id |-> BuiltinExt]} \cup
    {[picked |-> TRUE, id |-> e] : e \in QuickPickItems}

\* extension-groups.addExtension
AddExtension(group, selectedExtension) ==
    /\ requests' = <<>>
    /\ notification' = "none"
    /\ UNCHANGED <<file, dataTransfer, clock>>
    /\ HostUnchanged
    /\ LET e == selectedExtension.id
       IN
       IF ~selectedExtension.picked
       THEN /\ MemoryUnchanged
            /\ lastOp' = Op("addExtension", KindOnly(group), NoItem, BuiltinExt,
                            <<>>, "dismissed")
       ELSE IF ~IsArray(heap[state].groups)
       THEN /\ MemoryUnchanged
            /\ lastOp' = Op("addExtension", KindOnly(group), NoItem, e, <<>>, "threw")
       ELSE IF ~CanAddMember(heap[state].groups.items, group.groupId, e)
       THEN /\ MemoryUnchanged
            /\ lastOp' = Op("addExtension", group, NoItem, e, <<>>, "noop")
       ELSE /\ LET m1 == WithGroups(Memory, state,
                             AddMember(heap[state].groups.items, group.groupId, e))
                   m2 == GlobalStateUpdate(m1, m1.state)
                   m3 == UpdateProviderState(m2)
               IN  Commit(m3)
            /\ lastOp' = Op("addExtension", group, NoItem, e, <<>>, "done")

\* targetGroup.extensions.filter(id => id !== extension.extensionId)
RemoveMember(gs, gid, e) ==
    [gs EXCEPT ![FindIndex(gs, gid)].extensions = Filter(@, e)]

\* extension-groups.removeExtension
RemoveExtension(extension) ==
    /\ requests' = <<>>
    /\ notification' = "none"
    /\ UNCHANGED <<file, dataTransfer, clock>>
    /\ HostUnchanged
    /\ IF ~IsArray(heap[state].groups)
       THEN /\ MemoryUnchanged
            /\ lastOp' = Op("removeExtension", KindOnly(extension), NoItem, BuiltinExt,
                            <<>>, "threw")
       ELSE IF FindIndex(heap[state].groups.items, extension.groupId) = 0
       THEN /\ MemoryUnchanged
            /\ lastOp' = Op("removeExtension", KindOnly(extension), NoItem, BuiltinExt,
                            <<>>, "noop")
       ELSE /\ LET m1 == WithGroups(Memory, state,
                             RemoveMember(heap[state].groups.items, extension.groupId,
                                          extension.extensionId))
                   m2 == GlobalStateUpdate(m1, m1.state)
                   m3 == UpdateProviderState(m2)
               IN  Commit(m3)
            /\ lastOp' = Op("removeExtension", extension, NoItem, extension.extensionId,
                            <<>>, "done")

\* The loop of activateGroup over the group's members: the requests issued and
\* whether one of them rejected, which ends the handler (nothing catches it).
\* installed answers getExtension, active answers ext.isActive, and rejecting
\* are the extensions whose request the host rejects.
RECURSIVE ToggleMembers(_, _, _, _, _, _)
ToggleMembers(members, isActive, installed, active, rejecting, acc) ==
    IF members = <<>> \/ acc.threw THEN acc
    ELSE LET extId == Head(members)
             rest == Tail(members)
             request(kind) == [requests |-> Append(acc.requests, <<kind, extId>>),
                               threw |-> extId \in rejecting]
         IN  IF extId \notin installed
             THEN ToggleMembers(rest, isActive, installed, active, rejecting, acc)
             ELSE IF ~isActive
             THEN IF extId \in active
                  THEN ToggleMembers(rest, isActive, installed, active, rejecting, acc)
                  ELSE ToggleMembers(rest, isActive, installed, active, rejecting,
                                     request("enable"))
             ELSE ToggleMembers(rest, isActive, installed, active, rejecting,
                                request("disable"))

\* targetGroup.isActive = !targetGroup.isActive
FlipActive(gs, gid) ==
    [gs EXCEPT ![FindIndex(gs, gid)].isActive = ~@]

\* extension-groups.activateGroup; active are the extensions the host reports
\* active (ext.isActive) and rejecting those whose request it rejects.
ActivateGroup(group, active, rejecting) ==
    /\ UNCHANGED <<file, dataTransfer, clock>>
    /\ HostUnchanged
    /\ IF ~IsArray(heap[state].groups)
       THEN /\ MemoryUnchanged
            /\ requests' = <<>>
            /\ notification' = "none"
            /\ lastOp' = Op("activateGroup", group, NoItem, BuiltinExt, <<>>,
                            "threw")
       ELSE IF FindIndex(heap[state].groups.items, group.groupId) = 0
       THEN /\ MemoryUnchanged
            /\ requests' = <<>>
            /\ notification' = "none"
            /\ lastOp' = Op("activateGroup", group, NoItem, BuiltinExt, <<>>,
                            "noop")
       ELSE LET gs == heap[state].groups.items
                targetGroup == gs[FindIndex(gs, group.groupId)]
                loop == ToggleMembers(targetGroup.extensions, targetGroup.isActive,
                                      Range(extensionsAll), active, rejecting,
                                      [requests |-> <<>>, threw |-> FALSE])
            IN  /\ requests' = loop.requests
                /\ IF loop.threw
                   THEN /\ MemoryUnchanged
                        /\ notification' = "none"
                        /\ lastOp' = Op("activateGroup", group, NoItem, BuiltinExt,
                                        <<>>, "threw")
                   ELSE /\ LET m1 == WithGroups(Memory, state,
                                                FlipActive(gs, group.groupId))
                               m2 == GlobalStateUpdate(m1, m1.state)
                               m3 == UpdateProviderState(m2)
                           IN  Commit(m3)
                        /\ notification' = IF targetGroup.isActive THEN "info" ELSE "none"
                        /\ lastOp' = Op("activateGroup", group, NoItem, BuiltinExt,
                                        <<>>, "done")

\* dragAndDrop, extension onto group: whether the move is made.
CanMoveMember(gs, sourceGid, targetGid) ==
    /\ FindIndex(gs, sourceGid) # 0
    /\ FindIndex(gs, targetGid) # 0
    /\ gs[FindIndex(gs, sourceGid)].id # gs[FindIndex(gs, targetGid)].id

\* dragAndDrop, extension onto group: remove from the source group, then add to
\* the target group if it is not listed there.
MoveMember(gs, sourceGid, targetGid, e) ==
    LET si == FindIndex(gs, sourceGid)
        ti == FindIndex(gs, targetGid)
        removed == [gs EXCEPT ![si].extensions = Filter(@, e)]
    IN  IF Includes(removed[ti].extensions, e)
        THEN removed
        ELSE [removed EXCEPT ![ti].extensions = Append(@, e)]

\* dragAndDrop, group onto group: whether the reorder is made.
CanReorderGroups(gs, sourceGid, targetGid) ==
    FindIndex(gs, sourceGid) # 0 /\ FindIndex(gs, targetGid) # 0

\* A reorder that exchanges the source group and the target group.
ReorderGroupsSwap(gs, sourceGid, targetGid) ==
    LET sourceIndex == FindIndex(gs, sourceGid)
        targetIndex == FindIndex(gs, targetGid)
    IN  [gs EXCEPT ![sourceIndex] = gs[targetIndex], ![targetIndex] = gs[sourceIndex]]

\* dragAndDrop, group onto group: splice the source out, splice it in at the
\* target's index.
ReorderGroups(gs, sourceGid, targetGid) ==
    LET sourceIndex == FindIndex(gs, sourceGid)
        targetIndex == FindIndex(gs, targetGid)
    IN  InsertAt(RemoveAt(gs, sourceIndex), targetIndex, gs[sourceIndex])

\* extension-groups.dragAndDrop
DragAndDrop(source, target) ==
    /\ requests' = <<>>
    /\ notification' = "none"
    /\ UNCHANGED <<file, dataTransfer, clock>>
    /\ HostUnchanged
    /\ LET op(outcome) == Op("dragAndDrop", source, target, source.extensionId,
                             <<>>, outcome)
           none(outcome) == Op("dragAndDrop", KindOnly(source), KindOnly(target),
                               BuiltinExt, <<>>, outcome)
       IN
       IF source.kind = "extension" /\ target.kind = "group"
       THEN IF ~IsArray(heap[state].groups)
            THEN MemoryUnchanged /\ lastOp' = none("threw")
            ELSE IF ~CanMoveMember(heap[state].groups.items, source.groupId, target.groupId)
            THEN MemoryUnchanged /\ lastOp' = none("noop")
            ELSE /\ LET m1 == WithGroups(Memory, state,
                                  MoveMember(heap[state].groups.items, source.groupId,
                                             target.groupId, source.extensionId))
                        m2 == GlobalStateUpdate(m1, m1.state)
                        m3 == UpdateProviderState(m2)
                    IN  Commit(m3)
                 /\ lastOp' = op("moved")
       ELSE IF source.kind = "group" /\ target.kind = "group"
       THEN IF \/ ~IsArray(heap[state].groups)
               \/ ~CanReorderGroups(heap[state].groups.items, source.groupId, target.groupId)
            THEN MemoryUnchanged /\ lastOp' = none("noop")
            ELSE /\ LET m1 == WithGroups(Memory, state,
                                  ReorderGroups(heap[state].groups.items, source.groupId,
                                                target.groupId))
                        m2 == GlobalStateUpdate(m1, m1.state)
                        m3 == UpdateProviderState(m2)
                    IN  Commit(m3)
                 /\ lastOp' = op("reordered")
       ELSE MemoryUnchanged /\ lastOp' = none("ignored")

(* --------------------------- drag and drop ---------------------------- *)
NoDrag == [dragging |-> FALSE, set |-> FALSE, text |-> <<>>]

\* JSON.stringify(payload) of handleDrag and JSON.parse(raw) of handleDrop
StringifyPayload(items) ==
    [i \in 1..Len(items) |->
        << <<"extensionId", items[i].extensionId>>, <<"groupId", items[i].groupId>> >>]
ParsePayload(text) ==
    [i \in 1..Len(text) |->
        [extensionId |-> Member(text[i], "extensionId"),
         groupId |-> Member(text[i], "groupId")]]

\* A drag gesture: the selected nodes, each once, in selection order.
DragSelections ==
    {s \in UNION {[1..n -> VisibleItems] : n \in 1..MaxDrag} :
        \A i, j \in 1..Len(s) : i # j => s[i] # s[j]}

\* What handleDrag made of the selection: every node was an extension node and
\* is in the payload, some nodes were filtered out, or nothing was set.
DragOutcome(source) ==
    LET extItems == SelectSeq(source, LAMBDA item : item.kind = "extension")
    IN  IF Len(extItems) = 0 THEN "empty"
        ELSE IF Len(extItems) = Len(source) THEN "carried"
        ELSE "partial"

\* ExtensionGroupsProvider.handleDrag; lastOp keeps the node of a drag of one
\* group node, which no payload tells.
HandleDrag(source) ==
    /\ LET extItems == SelectSeq(source, LAMBDA item : item.kind = "extension")
       IN  dataTransfer' =
               IF Len(extItems) > 0
               THEN [dragging |-> TRUE, set |-> TRUE, text |-> StringifyPayload(extItems)]
               ELSE [dragging |-> TRUE, set |-> FALSE, text |-> <<>>]
    /\ requests' = <<>>
    /\ notification' = "none"
    /\ lastOp' = Op("handleDrag",
                    IF Len(source) = 1 /\ source[1].kind = "group" THEN source[1] ELSE NoItem,
                    NoItem, BuiltinExt, <<>>, DragOutcome(source))
    /\ MemoryUnchanged
    /\ UNCHANGED <<file, clock>>
    /\ HostUnchanged

\* handleDrop without the includes() test before the push.
DropItemUnguarded(gs, item, targetGroupId) ==
    LET si == FindIndex(gs, item.groupId)
        removed == IF si # 0
                   THEN [gs EXCEPT ![si].extensions = Filter(@, item.extensionId)]
                   ELSE gs
        ti == FindIndex(removed, targetGroupId)
    IN  IF targetGroupId # UncategorizedId /\ ti # 0
        THEN [removed EXCEPT ![ti].extensions = Append(@, item.extensionId)]
        ELSE removed

\* One turn of the loop of handleDrop.
DropItem(gs, item, targetGroupId) ==
    LET si == FindIndex(gs, item.groupId)
        removed == IF si # 0
                   THEN [gs EXCEPT ![si].extensions = Filter(@, item.extensionId)]
                   ELSE gs
        ti == FindIndex(removed, targetGroupId)
    IN  IF targetGroupId # UncategorizedId
        THEN IF ti # 0 /\ ~Includes(removed[ti].extensions, item.extensionId)
             THEN [removed EXCEPT ![ti].extensions = Append(@, item.extensionId)]
             ELSE removed
        ELSE removed

RECURSIVE DropItems(_, _, _)
DropItems(gs, items, targetGroupId) ==
    IF items = <<>> THEN gs
    ELSE DropItems(DropItem(gs, Head(items), targetGroupId), Tail(items), targetGroupId)

\* ExtensionGroupsProvider.handleDrop; target is NoItem for a drop on no node.
HandleDrop(target) ==
    /\ dataTransfer.dragging
    /\ dataTransfer' = NoDrag
    /\ requests' = <<>>
    /\ notification' = "none"
    /\ UNCHANGED <<file, clock>>
    /\ HostUnchanged
    /\ LET items == ParsePayload(dataTransfer.text)
           op(outcome) == Op("handleDrop", NoItem, target, BuiltinExt, items, outcome)
           none(outcome) == Op("handleDrop", NoItem, KindOnly(target), BuiltinExt,
                               <<>>, outcome)
       IN
       IF ~dataTransfer.set
       THEN MemoryUnchanged /\ lastOp' = none("noData")
       ELSE IF target.kind = "none"
       THEN MemoryUnchanged /\ lastOp' = none("noTarget")
       ELSE IF ~IsArray(heap[providerState].groups)
       THEN MemoryUnchanged /\ lastOp' = none("threw")
       ELSE /\ LET m1 == WithGroups(Memory, providerState,
                             DropItems(heap[providerState].groups.items, items,
                                       target.groupId))
                   m2 == GlobalStateUpdate(m1, m1.provider)
                   m3 == ProviderRefresh(m2)
               IN  Commit(m3)
            /\ lastOp' = op("done")

(* ------------------------- export and import -------------------------- *)
\* extension-groups.syncSettings; io is what the file system does:
\* mkdirSync throws, writeFileSync throws, or both succeed.
SyncSettings(io, now) ==
    /\ clock' = now
    /\ requests' = <<>>
    /\ UNCHANGED dataTransfer
    /\ HostUnchanged
    /\ IF io = "mkdirThrows"
       THEN /\ ~file.exists
            /\ MemoryUnchanged
            /\ UNCHANGED file
            /\ notification' = "error"
            /\ lastOp' = Op("syncSettings", NoItem, NoItem, BuiltinExt, <<>>,
                            "failed")
       ELSE LET m1 == [Memory EXCEPT !.heap[state].lastSyncTime = now]
                m2 == GlobalStateUpdate(m1, m1.state)
                m3 == UpdateProviderState(m2)
            IN  IF io = "writeThrows"
                THEN /\ Commit(m2)
                     /\ UNCHANGED file
                     /\ notification' = "error"
                     /\ lastOp' = Op("syncSettings", NoItem, NoItem, BuiltinExt,
                                     <<>>, "failed")
                ELSE /\ Commit(m3)
                     /\ file' = JsonFile(Stringify(m2.heap[m2.state]))
                     /\ notification' = "info"
                     /\ lastOp' = Op("syncSettings", NoItem, NoItem, BuiltinExt,
                                     <<>>, "done")

\* state = importedState
AssignState(m, obj) ==
    LET l == Fresh(m)
    IN  [m EXCEPT !.heap[l] = obj, !.state = l]

\* importSettings without the existsSync test: readFileSync throws on a
\* missing file and the catch reports it.
ImportOutcomeUntested(f) ==
    IF ~f.exists \/ ~f.parseable THEN "failed" ELSE "done"

\* The path importSettings takes: the else of existsSync, the catch of a
\* JSON.parse that throws, or the end of the try block.
ImportOutcome(f) ==
    IF ~f.exists THEN "notFound"
    ELSE IF ~f.parseable THEN "failed"
    ELSE "done"

\* extension-groups.importSettings
ImportSettings ==
    /\ requests' = <<>>
    /\ UNCHANGED <<file, dataTransfer, clock>>
    /\ HostUnchanged
    /\ lastOp' = Op("importSettings", NoItem, NoItem, BuiltinExt, <<>>,
                    ImportOutcome(file))
    /\ IF ImportOutcome(file) = "notFound"
       THEN /\ MemoryUnchanged
            /\ notification' = "warning"
       ELSE IF ImportOutcome(file) = "failed"
       THEN /\ MemoryUnchanged
            /\ notification' = "error"
       ELSE /\ LET m1 == AssignState(Memory, Parse(file.text))
                   m2 == GlobalStateUpdate(m1, m1.state)
                   m3 == UpdateProviderState(m2)
               IN  Commit(m3)
            /\ notification' = "info"

(* ---------------------------- environment ----------------------------- *)
\* The export file is removed, damaged or replaced outside the extension.
ExternalFiles == {MissingFile, CorruptFile, NotAnArrayFile}
FileChanges(f) ==
    /\ file # f
    /\ file' = f
    /\ lastOp' = Op("fileChanges", NoItem, NoItem, BuiltinExt, <<>>, "done")
    /\ MemoryUnchanged
    /\ UNCHANGED <<clock, dataTransfer, notification, requests>>
    /\ HostUnchanged

\* The user uninstalls an extension: it leaves vscode.extensions.all.
Uninstall(e) ==
    /\ Includes(extensionsAll, e)
    /\ extensionsAll' = Filter(extensionsAll, e)
    /\ lastOp' = Op("uninstall", NoItem, NoItem, e, <<>>, "done")
    /\ MemoryUnchanged
    /\ UNCHANGED <<file, clock, dataTransfer, notification, requests, copyOnUpdate>>

\* activate(): state is what globalState holds, or a new empty state; the
\* provider is constructed on the same object.
ActivateMemory(m) ==
    LET l == Fresh(m)
    IN  IF m.memento = NoRef
        THEN [m EXCEPT !.heap[l] = EmptyState, !.state = l, !.provider = l]
        ELSE [m EXCEPT !.state = m.memento, !.provider = m.memento]

\* The window reloads: globalState is read from storage and activate() runs.
Activate ==
    /\ LET loaded == IF persisted.present
                     THEN [Memory EXCEPT !.heap[1] = Parse(persisted.text),
                                         !.state = 1, !.provider = 1, !.memento = 1]
                     ELSE [Memory EXCEPT !.heap[1] = EmptyState,
                                         !.state = 1, !.provider = 1, !.memento = NoRef]
       IN  Commit(ActivateMemory(loaded))
    /\ dataTransfer' = NoDrag
    /\ notification' = "none"
    /\ requests' = <<>>
    /\ lastOp' = NoOp
    /\ UNCHANGED <<file, clock, extensionsAll, copyOnUpdate>>

\* Every vscode.extensions.all: some of the extensions, each once, in some order.
Inventories ==
    {s \in UNION {[1..n -> AllExtIds] : n \in 0..Cardinality(AllExtIds)} :
        \A i, j \in 1..Len(s) : i # j => s[i] # s[j]}

\* The host lists the built-in extension and every third-party extension.
FullInventory == [i \in 1..(NumExt + 1) |-> i - 1]
\* A host with one third-party extension installed.
SmallInventory == <<BuiltinExt, 1>>

NoTrip == [legs |-> 0, ext |-> BuiltinExt, from |-> UncategorizedId,
           to |-> UncategorizedId, start |-> EmptyState]

\* No handler is suspended.
NoOther == [name |-> "none", group |-> NoItem]
NoPending ==
    [cmd |-> "none", group |-> NoItem, ref |-> 0, orphan |-> NewGroup(UncategorizedId, ""),
     rest |-> <<>>, start |-> [obj |-> EmptyState, file |-> MissingFile],
     now |-> 0, other |-> NoOther]

\* The state after the first activate() on a host that lists `inventory`:
\* nothing stored, an empty state object shared by the commands and the
\* provider. Either kind of globalState.
InitWith(inventory) ==
    /\ heap = [l \in Locs |-> EmptyState]
    /\ state = 1
    /\ providerState = 1
    /\ globalState = NoRef
    /\ persisted = NothingPersisted
    /\ file = MissingFile
    /\ clock = 1
    /\ extensionsAll = inventory
    /\ dataTransfer = NoDrag
    /\ copyOnUpdate \in BOOLEAN
    /\ notification = "none"
    /\ requests = <<>>
    /\ lastOp = NoOp
    /\ trip = NoTrip
    /\ pending = NoPending

Init == InitWith(FullInventory)

(* ------------------------- the three copies --------------------------- *)
GroupsOf(obj) == IF IsArray(obj.groups) THEN obj.groups.items ELSE <<>>
\* The groups the command handlers work on.
StateGroups == GroupsOf(heap[state])
\* The groups the tree provider projects.
ProviderGroups == GroupsOf(heap[providerState])
\* The groups last written under 'extensionGroups'.
PersistedState == IF persisted.present THEN Parse(persisted.text) ELSE EmptyState
PersistedGroups == GroupsOf(PersistedState)
Copies == {StateGroups, ProviderGroups, PersistedGroups}

\* The members of the first group with this id; none when there is no such group.
MembersIn(gs, gid) ==
    IF FindIndex(gs, gid) # 0 THEN Range(gs[FindIndex(gs, gid)].extensions) ELSE {}

(* ------------------------- the steps of a user ------------------------ *)
\* The number of groups the commands see.
GroupCount == Len(StateGroups)

Dismissed == [given |-> FALSE, text |-> ""]
Typed(t) == [given |-> TRUE, text |-> t]

\* No drag gesture is under way: a gesture ends with its drop before the next
\* command or gesture starts.
Idle == ~dataTransfer.dragging

Create(inputs, maxGroups, maxClock) ==
    \E input \in inputs, now \in clock..maxClock :
        /\ GroupCount < maxGroups
        /\ CreateGroup(input, now)
Delete ==
    \E group \in VisibleGroupItems, confirmation \in WarningMessageResults :
        DeleteGroup(group, confirmation)
Add == \E group \in VisibleGroupItems, sel \in QuickPickResults : AddExtension(group, sel)
Remove == \E extension \in VisibleExtItems : RemoveExtension(extension)
\* The host's answers matter for the group's own members only.
Toggle ==
    \E group \in VisibleGroupItems :
        \E active \in SUBSET MembersIn(StateGroups, group.groupId),
           rejecting \in SUBSET MembersIn(StateGroups, group.groupId) :
            ActivateGroup(group, active, rejecting)
\* The command reads a group node's id; of an extension node given as target it
\* reads the class only, so one extension node stands for all as target.
CommandTargets == VisibleGroupItems \cup {KindOnly(n) : n \in VisibleExtItems}
DragDropCommand ==
    \E source \in VisibleItems, target \in CommandTargets : DragAndDrop(source, target)
Drag == \E source \in DragSelections : HandleDrag(source)
Drop == \E target \in VisibleItems \cup {NoItem} : HandleDrop(target)
Export ==
    \E io \in {"ok", "mkdirThrows", "writeThrows"}, now \in clock..MaxClock :
        SyncSettings(io, now)

(* The group store and its tree: the commands that create and delete groups  *)
(* and add, remove and move their members, the drag gestures, and window     *)
(* reloads.                                                                  *)
Next ==
    \/ Idle /\ Create({Dismissed, Typed(""), Typed("work")}, MaxGroups, MaxClock)
            /\ UNCHANGED <<trip, pending>>
    \/ Idle /\ Delete /\ UNCHANGED <<trip, pending>>
    \/ Idle /\ Add /\ UNCHANGED <<trip, pending>>
    \/ Idle /\ Remove /\ UNCHANGED <<trip, pending>>
    \/ Idle /\ DragDropCommand /\ UNCHANGED <<trip, pending>>
    \/ Idle /\ Drag /\ UNCHANGED <<trip, pending>>
    \/ Drop /\ UNCHANGED <<trip, pending>>
    \/ Idle /\ Activate /\ UNCHANGED <<trip, pending>>

Spec == Init /\ [][Next]_vars

(* Activation of groups: groups are created and filled, toggled against a    *)
(* host that may reject a request, and extensions are uninstalled.           *)
NextToggle ==
    \/ Create({Typed("work")}, MaxGroups, MaxClock) /\ UNCHANGED <<trip, pending>>
    \/ Add /\ UNCHANGED <<trip, pending>>
    \/ Remove /\ UNCHANGED <<trip, pending>>
    \/ Toggle /\ UNCHANGED <<trip, pending>>
    \/ (\E e \in ExtIds : Uninstall(e)) /\ UNCHANGED <<trip, pending>>
    \/ Activate /\ UNCHANGED <<trip, pending>>

SpecToggle == Init /\ [][NextToggle]_vars

\* History of an export and the import that follows it at once: the first leg
\* is a successful export, and the trip starts from the state it exported.
ExportTrip ==
    IF lastOp'.outcome = "done"
    THEN [NoTrip EXCEPT !.legs = 1, !.start = heap'[state']]
    ELSE NoTrip
ImportTrip == IF trip.legs = 1 THEN [trip EXCEPT !.legs = 2] ELSE NoTrip

(* Export and import: the store is filled and toggled, exported, imported,   *)
(* and the export file is removed or replaced from outside.                  *)
NextSync ==
    \/ Create({Typed("work")}, MaxGroups, MaxClock) /\ trip' = NoTrip /\ UNCHANGED pending
    \/ Add /\ trip' = NoTrip /\ UNCHANGED pending
    \/ Remove /\ trip' = NoTrip /\ UNCHANGED pending
    \/ Toggle /\ trip' = NoTrip /\ UNCHANGED pending
    \/ Export /\ trip' = ExportTrip /\ UNCHANGED pending
    \/ ImportSettings /\ trip' = ImportTrip /\ UNCHANGED pending
    \/ (\E f \in ExternalFiles : FileChanges(f)) /\ trip' = NoTrip /\ UNCHANGED pending

SpecSync == InitWith(SmallInventory) /\ [][NextSync]_vars

\* History of a creation in a store with no groups and the deletion that
\* follows it at once: the first leg is the creation, `from` the id it gave.
CreateTrip ==
    IF /\ lastOp'.outcome = "done"
       /\ StateGroups = <<>> /\ ProviderGroups = <<>> /\ PersistedGroups = <<>>
    THEN [NoTrip EXCEPT !.legs = 1, !.from = StateGroups'[1].id]
    ELSE NoTrip
DeleteTrip ==
    IF trip.legs = 1 /\ lastOp'.outcome = "done" /\ lastOp'.source.groupId = trip.from
    THEN [trip EXCEPT !.legs = 2]
    ELSE NoTrip

(* The list of groups: groups are created under any name typed, deleted and  *)
(* reordered by the dragAndDrop command.                                     *)
NextGroups ==
    \/ Create(InputBoxResults, MaxListed, MaxListed) /\ trip' = CreateTrip /\ UNCHANGED pending
    \/ Delete /\ trip' = DeleteTrip /\ UNCHANGED pending
    \/ DragDropCommand /\ trip' = NoTrip /\ UNCHANGED pending

SpecGroups == InitWith(SmallInventory) /\ [][NextGroups]_vars

\* The move of one member between groups that a handler made, as its record
\* in lastOp tells: the dragAndDrop command that moved, or a drop of one item.
MoveOf(op) ==
    IF op.name = "dragAndDrop" /\ op.outcome = "moved"
    THEN [is |-> TRUE, ext |-> op.source.extensionId,
          from |-> op.source.groupId, to |-> op.target.groupId]
    ELSE IF op.name = "handleDrop" /\ op.outcome = "done" /\ Len(op.items) = 1
    THEN [is |-> TRUE, ext |-> op.items[1].extensionId,
          from |-> op.items[1].groupId, to |-> op.target.groupId]
    ELSE [is |-> FALSE, ext |-> BuiltinExt, from |-> UncategorizedId,
          to |-> UncategorizedId]

\* History of a move and its return. The first leg moves x from A to B, two
\* groups of the tree with different ids, x listed by A and not by B; the
\* second leg is the next move, of x from B to A. The trip starts from the
\* state the tree showed before the first leg.
MoveTrip ==
    LET mv == MoveOf(lastOp')
    IN  IF trip.legs = 1 /\ mv.is /\ mv.ext = trip.ext
           /\ mv.from = trip.to /\ mv.to = trip.from
        THEN [trip EXCEPT !.legs = 2]
        ELSE IF /\ mv.is
                /\ mv.from # mv.to
                /\ FindIndex(ProviderGroups, mv.from) # 0
                /\ FindIndex(ProviderGroups, mv.to) # 0
                /\ mv.ext \in MembersIn(ProviderGroups, mv.from)
                /\ mv.ext \notin MembersIn(ProviderGroups, mv.to)
        THEN [legs |-> 1, ext |-> mv.ext, from |-> mv.from, to |-> mv.to,
              start |-> heap[providerState]]
        ELSE NoTrip

(* Moves: groups are created and filled, and members are moved between them  *)
(* by drag gestures and by the dragAndDrop command.                          *)
NextMove ==
    \/ Idle /\ Create({Typed("work")}, MaxListed, MaxListed) /\ trip' = NoTrip /\ UNCHANGED pending
    \/ Idle /\ Add /\ trip' = NoTrip /\ UNCHANGED pending
    \/ Idle /\ Drag /\ UNCHANGED <<trip, pending>>
    \/ Drop /\ trip' = MoveTrip /\ UNCHANGED pending
    \/ Idle /\ DragDropCommand /\ trip' = MoveTrip /\ UNCHANGED pending

SpecMove == InitWith(SmallInventory) /\ [][NextMove]_vars

(* ----------------------- suspended handlers --------------------------- *)
\* The member at which the loop of activateGroup first awaits a request of the
\* host (ext.activate() or the disable command); 0 when it awaits none.
AwaitsAt(members, isActive, installed, active) ==
    LET awaiting == {k \in 1..Len(members) :
                        /\ members[k] \in installed
                        /\ (isActive \/ members[k] \notin active)}
    IN  IF awaiting = {} THEN 0
        ELSE CHOOSE k \in awaiting : \A j \in awaiting : k <= j

\* activateGroup up to its first await in the loop: targetGroup is found, the
\* members before the awaited one are passed over, one request is issued.
ActivateGroupBegin(group, active) ==
    /\ pending.cmd = "none"
    /\ IsArray(heap[state].groups)
    /\ FindIndex(heap[state].groups.items, group.groupId) # 0
    /\ LET gs == heap[state].groups.items
           ref == FindIndex(gs, group.groupId)
           targetGroup == gs[ref]
           k == AwaitsAt(targetGroup.extensions, targetGroup.isActive,
                         Range(extensionsAll), active)
       IN  /\ k # 0
           /\ requests' = << <<IF targetGroup.isActive THEN "disable" ELSE "enable",
                               targetGroup.extensions[k]>> >>
           /\ pending' = [NoPending EXCEPT
                             !.cmd = "activateGroup", !.group = group, !.ref = ref,
                             !.rest = SubSeq(targetGroup.extensions, k + 1,
                                             Len(targetGroup.extensions)),
                             !.start = [obj |-> heap[state], file |-> file]]
    /\ notification' = "none"
    /\ MemoryUnchanged
    /\ UNCHANGED <<file, dataTransfer, clock, lastOp>>
    /\ HostUnchanged

\* activateGroup from the await on: the host has fulfilled the request, the
\* loop goes on over the members left and reads targetGroup.isActive anew; then
\* the flip of targetGroup, which is an object of state.groups (ref) or one no
\* longer reachable from state (orphan), the update and the refresh.
ActivateGroupResume(active) ==
    /\ pending.cmd = "activateGroup"
    /\ UNCHANGED <<file, dataTransfer, clock>>
    /\ HostUnchanged
    /\ LET live == pending.ref # 0
           targetGroup == IF live THEN heap[state].groups.items[pending.ref]
                          ELSE pending.orphan
           loop == ToggleMembers(pending.rest, targetGroup.isActive,
                                 Range(extensionsAll), active, {},
                                 [requests |-> <<>>, threw |-> FALSE])
           m1 == IF live
                 THEN WithGroups(Memory, state,
                                 [heap[state].groups.items EXCEPT
                                     ![pending.ref].isActive = ~@])
                 ELSE Memory
           m2 == GlobalStateUpdate(m1, m1.state)
           m3 == UpdateProviderState(m2)
       IN  /\ requests' = loop.requests
           /\ Commit(m3)
           /\ notification' = IF targetGroup.isActive THEN "info" ELSE "none"
    /\ lastOp' = Op("activateGroup", pending.group, NoItem, BuiltinExt, <<>>, "done")
    /\ pending' = NoPending

\* syncSettings up to `await context.globalState.update(...)`: the directory
\* exists or is made, the timestamp is set and the update has been called.
SyncSettingsBegin(now) ==
    /\ pending.cmd = "none"
    /\ clock' = now
    /\ requests' = <<>>
    /\ LET m1 == [Memory EXCEPT !.heap[state].lastSyncTime = now]
           m2 == GlobalStateUpdate(m1, m1.state)
       IN  Commit(m2)
    /\ pending' = [NoPending EXCEPT !.cmd = "syncSettings", !.now = now,
                                    !.start = [obj |-> heap[state], file |-> file]]
    /\ UNCHANGED <<file, dataTransfer, notification, lastOp>>
    /\ HostUnchanged

\* syncSettings from the await on: writeFileSync of what `state` is now, the
\* message and the refresh.
SyncSettingsResume ==
    /\ pending.cmd = "syncSettings"
    /\ file' = JsonFile(Stringify(heap[state]))
    /\ Commit(UpdateProviderState(Memory))
    /\ requests' = <<>>
    /\ notification' = "info"
    /\ lastOp' = Op("syncSettings", NoItem, NoItem, BuiltinExt, <<>>, "done")
    /\ pending' = NoPending
    /\ UNCHANGED <<dataTransfer, clock>>
    /\ HostUnchanged

\* handleDrop up to `await extData.asString()`: there is data to read.
HandleDropBegin(target) ==
    /\ pending.cmd = "none"
    /\ dataTransfer.dragging
    /\ dataTransfer.set
    /\ pending' = [NoPending EXCEPT !.cmd = "handleDrop", !.group = target,
                                    !.start = [obj |-> heap[providerState],
                                               file |-> file]]
    /\ MemoryUnchanged
    /\ UNCHANGED <<file, dataTransfer, clock, notification, requests, lastOp>>
    /\ HostUnchanged

\* handleDrop from the await on: the rest of the handler, on the target it
\* was given.
HandleDropResume ==
    /\ pending.cmd = "handleDrop"
    /\ HandleDrop(pending.group)
    /\ pending' = NoPending

\* What a suspended handler holds after another command has run: targetGroup
\* of activateGroup stays the same object, at the index filter() leaves it at,
\* or is out of state.groups after a delete of its id or an import.
PendingAfter(name, group) ==
    LET gs == StateGroups
        r == pending.ref
        detached == /\ r # 0
                    /\ \/ name = "importSettings" /\ ImportOutcome(file) = "done"
                       \/ name = "deleteGroup" /\ gs[r].id = group.groupId
        kept == IF name = "deleteGroup"
                THEN r - Cardinality({k \in 1..(r - 1) : gs[k].id = group.groupId})
                ELSE r
    IN  [pending EXCEPT !.ref = IF r = 0 \/ detached THEN 0 ELSE kept,
                        !.orphan = IF detached THEN gs[r] ELSE @,
                        !.other = [name |-> name, group |-> group]]

\* A handler is suspended and no command has run since.
Suspended == pending.cmd # "none" /\ pending.other.name = "none"
\* No handler is suspended and no gesture is under way.
Quiet == pending.cmd = "none" /\ Idle

(* Overlapping handlers: groups are created and filled and the store is      *)
(* exported; activateGroup, syncSettings and handleDrop suspend at an await, *)
(* one command runs to completion, and the suspended handler resumes.        *)
NextOverlap ==
    \/ Quiet /\ Create({Typed("work")}, MaxGroups, MaxClock)
             /\ UNCHANGED <<trip, pending>>
    \/ Quiet /\ Add /\ UNCHANGED <<trip, pending>>
    \/ Quiet /\ (\E item \in VisibleExtItems : HandleDrag(<<item>>))
             /\ UNCHANGED <<trip, pending>>
    \/ (\E group \in VisibleGroupItems : ActivateGroupBegin(group, {}))
          /\ Idle /\ UNCHANGED trip
    \/ (\E now \in clock..MaxClock : SyncSettingsBegin(now)) /\ Idle /\ UNCHANGED trip
    \/ (\E target \in VisibleItems : HandleDropBegin(target)) /\ UNCHANGED trip
    \/ \E group \in VisibleGroupItems :
          /\ Suspended
          /\ DeleteGroup(group, "Yes")
          /\ pending' = PendingAfter("deleteGroup", group)
          /\ UNCHANGED trip
    \/ \E group \in VisibleGroupItems :
          /\ Suspended
          /\ ActivateGroup(group, {}, {})
          /\ pending' = PendingAfter("activateGroup", group)
          /\ UNCHANGED trip
    \/ Suspended /\ ImportSettings /\ pending' = PendingAfter("importSettings", NoItem)
                 /\ UNCHANGED trip
    \/ ActivateGroupResume({}) /\ UNCHANGED trip
    \/ SyncSettingsResume /\ UNCHANGED trip
    \/ HandleDropResume /\ UNCHANGED trip

SpecOverlap == InitWith(SmallInventory) /\ [][NextOverlap]_vars

(* ======================= properties of the code ======================= *)
Positions(s, x) == {i \in 1..Len(s) : s[i] = x}
\* The groups of gs that list e.
GroupsListing(gs, e) == {i \in 1..Len(gs) : Includes(gs[i].extensions, e)}

\* C1: in every reachable state each extension identifier is in the members of
\* at most one group (in the commands' state, the provider's and the persisted).
C1_AtMostOneGroup ==
    \A gs \in Copies : \A e \in ExtIds : Cardinality(GroupsListing(gs, e)) <= 1

\* C2: in every reachable state no group's members list holds the same
\* extension identifier twice (in any of the three copies of the store).
C2_NoDuplicateMembers ==
    \A gs \in Copies : \A i \in 1..Len(gs) : \A e \in ExtIds :
        Cardinality(Positions(gs[i].extensions, e)) <= 1

\* C2 witness: a member has been dropped on the group it was dragged from, which
\* lists two members: the drop removed it and pushed it again.
C2_Witness ==
    /\ lastOp.name = "handleDrop"
    /\ lastOp.outcome = "done"
    /\ lastOp.items # <<>>
    /\ lastOp.items[1].groupId = lastOp.target.groupId
    /\ \E i \in 1..Len(ProviderGroups) :
          /\ ProviderGroups[i].id = lastOp.target.groupId
          /\ Len(ProviderGroups[i].extensions) = 2
          /\ Includes(ProviderGroups[i].extensions, lastOp.items[1].extensionId)

\* The inventory identifiers claimed by no group of gs.
Unclaimed(gs, inventory) ==
    {e \in Range(inventory) : ~IsBuiltin(e) /\ \A i \in 1..Len(gs) : ~Includes(gs[i].extensions, e)}

\* C3: for every inventory, the children of the Uncategorized node are exactly
\* the installed, not built-in identifiers that no group lists, each once and
\* in inventory order; the Uncategorized node is at the root exactly when there
\* is such an identifier; and an extension just added to a group is not among
\* the Uncategorized children of the projection that follows.
C3_UncategorizedProjection ==
    /\ \A inventory \in Inventories :
          LET kids == GetChildren(ProviderGroups, inventory, GroupItem(UncategorizedId))
              root == GetChildren(ProviderGroups, inventory, NoItem)
              at(e) == CHOOSE k \in 1..Len(inventory) : inventory[k] = e
          IN  /\ {kids[i].extensionId : i \in 1..Len(kids)} = Unclaimed(ProviderGroups, inventory)
              /\ Len(kids) = Cardinality(Unclaimed(ProviderGroups, inventory))
              /\ \A i \in 1..Len(kids) :
                    kids[i] = ExtItem(kids[i].extensionId, UncategorizedId)
              /\ \A i, j \in 1..Len(kids) :
                    i < j => at(kids[i].extensionId) < at(kids[j].extensionId)
              /\ (GroupItem(UncategorizedId) \in Range(root))
                    <=> (Unclaimed(ProviderGroups, inventory) # {})
              /\ (lastOp.name = "addExtension" /\ lastOp.outcome = "done")
                    => \A i \in 1..Len(kids) : kids[i].extensionId # lastOp.ext

\* C3 witness: an extension has just been added to a group while another is
\* still uncategorized.
C3_Witness ==
    /\ lastOp.name = "addExtension"
    /\ lastOp.outcome = "done"
    /\ Len(ProviderGroups) = 2
    /\ lastOp.ext \in MembersIn(ProviderGroups, lastOp.source.groupId)
    /\ Len(Uncategorized(ProviderGroups, extensionsAll)) = 1

\* The commands' state, the provider's state and the persisted text are what
\* they were before the step.
StoreUnchanged ==
    /\ heap'[state'] = heap[state]
    /\ heap'[providerState'] = heap[providerState]
    /\ persisted' = persisted

\* C4: an import of a file that parses as JSON but whose groups field is not an
\* array reports a failure and leaves the commands' state, the provider's state
\* and the persisted state as they were.
C4_NotAnArrayImportFails ==
    [][(file = NotAnArrayFile /\ ImportSettings)
          => (notification' = "error" /\ StoreUnchanged)]_vars

\* C5: an import of a file that does not parse leaves the in-memory and the
\* persisted state unchanged and shows an error; an import with no export file
\* leaves them unchanged and shows the warning, not an error.
C5_FailedImportLeavesState ==
    [][ImportSettings =>
          /\ (file.exists /\ ~file.parseable)
                => (StoreUnchanged /\ notification' = "error")
          /\ ~file.exists
                => (StoreUnchanged /\ notification' = "warning")]_vars

\* C5 witness: an import has failed on an unparseable file while the store held
\* a group with a member, persisted.
C5_Witness ==
    /\ lastOp.name = "importSettings"
    /\ lastOp.outcome = "failed"
    /\ notification = "error"
    /\ file = CorruptFile
    /\ \E i \in 1..Len(StateGroups) : StateGroups[i].extensions # <<>>
    /\ PersistedGroups = StateGroups

\* C6: after a successful export followed at once by an import, the commands'
\* state equals the state that was exported: the same groups in the same
\* order with the same id, name, members and isActive, and the same
\* lastSyncTime; so does the persisted state, and the provider's state when the
\* groups are an array.
C6_ExportImportRoundTrip ==
    trip.legs = 2 =>
        /\ lastOp.name = "importSettings"
        /\ lastOp.outcome = "done"
        /\ trip.start.lastSyncTime # NoSyncTime
        /\ heap[state] = trip.start
        /\ PersistedState = trip.start
        /\ IsArray(trip.start.groups) => heap[providerState] = trip.start

\* C6 witness: an export and the import after it have run on a store with two
\* groups, one of them active and one with a member.
C6_Witness ==
    /\ trip.legs = 2
    /\ lastOp.name = "importSettings"
    /\ lastOp.outcome = "done"
    /\ heap[state].lastSyncTime # NoSyncTime
    /\ Len(StateGroups) = 2
    /\ \E i \in 1..Len(StateGroups) : StateGroups[i].extensions # <<>>
    /\ \E i \in 1..Len(StateGroups) : StateGroups[i].isActive

\* C7: when x, a member of group A and not of group B, has been moved from A to
\* B and then from B to A, x is a member of A and not of B, and every other
\* group has the members it had before the first move (in the tree's state).
C7_MoveRoundTrip ==
    trip.legs = 2 =>
        /\ trip.ext \in MembersIn(ProviderGroups, trip.from)
        /\ trip.ext \notin MembersIn(ProviderGroups, trip.to)
        /\ Len(ProviderGroups) = Len(GroupsOf(trip.start))
        /\ \A i \in 1..Len(ProviderGroups) :
              ProviderGroups[i].id \notin {trip.from, trip.to}
                 => /\ ProviderGroups[i].id = GroupsOf(trip.start)[i].id
                    /\ Range(ProviderGroups[i].extensions)
                          = Range(GroupsOf(trip.start)[i].extensions)

Ids(gs) == [i \in 1..Len(gs) |-> gs[i].id]

\* C8: a reorder whose two ids are present relocates the source group: it then
\* sits at the index the target had, the other groups keep their order, the
\* list has the same length, and the result is persisted; [A,B,C] with
\* reorder(A,C) gives [B,C,A]; with an id that is not present the list and the
\* persisted state are unchanged.
C8_ReorderRelocates ==
    [][\A source \in VisibleGroupItems, target \in VisibleGroupItems :
          DragAndDrop(source, target) =>
             LET gs == StateGroups
                 si == FindIndex(gs, source.groupId)
                 ti == FindIndex(gs, target.groupId)
             IN  IF si # 0 /\ ti # 0
                 THEN /\ Len(StateGroups') = Len(gs)
                      /\ StateGroups'[ti] = gs[si]
                      /\ RemoveAt(StateGroups', ti) = RemoveAt(gs, si)
                      /\ PersistedGroups' = StateGroups'
                      /\ (Ids(gs) = <<1, 2, 3>> /\ si = 1 /\ ti = 3)
                            => Ids(StateGroups') = <<2, 3, 1>>
                 ELSE /\ StateGroups' = gs
                      /\ persisted' = persisted]_vars

\* C8 witness: the first of three groups has been reordered onto the third.
C8_Witness ==
    /\ lastOp.name = "dragAndDrop"
    /\ lastOp.outcome = "reordered"
    /\ lastOp.source.groupId = 1
    /\ lastOp.target.groupId = 3
    /\ Ids(StateGroups) = <<2, 3, 1>>
    /\ Ids(PersistedGroups) = <<2, 3, 1>>

\* C9: a toggle of an inactive group whose members are installed and not yet
\* active sets isActive and requests enable for every member in member order;
\* a toggle of an active group whose members are installed clears isActive and
\* requests disable for every member; whatever the host answers.
C9_ToggleRequestsEveryMember ==
    [][\A group \in VisibleGroupItems : \A active, rejecting \in SUBSET ExtIds :
          LET gs == StateGroups
              i == FindIndex(gs, group.groupId)
          IN  (/\ ActivateGroup(group, active, rejecting)
               /\ i # 0
               /\ Range(gs[i].extensions) \subseteq Range(extensionsAll)
               /\ ~gs[i].isActive => Range(gs[i].extensions) \cap active = {})
              => /\ StateGroups'[i].isActive = ~gs[i].isActive
                 /\ requests' = [k \in 1..Len(gs[i].extensions) |->
                                    <<IF gs[i].isActive THEN "disable" ELSE "enable",
                                      gs[i].extensions[k]>>]]_vars

\* C10: every toggle of an existing group flips its isActive flag and persists
\* the flipped value, also when the host rejects a request.
C10_ToggleAlwaysFlips ==
    [][\A group \in VisibleGroupItems : \A active, rejecting \in SUBSET ExtIds :
          LET gs == StateGroups
              i == FindIndex(gs, group.groupId)
          IN  (ActivateGroup(group, active, rejecting) /\ i # 0)
              => /\ Len(StateGroups') = Len(gs)
                 /\ StateGroups'[i].isActive = ~gs[i].isActive
                 /\ PersistedGroups' = StateGroups']_vars

\* C11: in every reachable state of the list of groups (groups created with ids
\* from a clock that never goes back, deleted and reordered) no two groups have
\* the same id, in any of the three copies of the store.
C11_UniqueGroupIds ==
    \A gs \in Copies : \A i, j \in 1..Len(gs) : i # j => gs[i].id # gs[j].id

\* C12: createGroup with an empty or whitespace-only name leaves the store as
\* it was; with any other name it appends one group of that name, with no
\* members and isActive false, at the end of the list.
C12_CreateValidatesName ==
    [][\A input \in InputBoxResults, now \in 1..MaxListed :
          (CreateGroup(input, now) /\ input.given) =>
             IF input.text \in {"", " "}
             THEN StoreUnchanged
             ELSE /\ Len(StateGroups') = Len(StateGroups) + 1
                  /\ SubSeq(StateGroups', 1, Len(StateGroups)) = StateGroups
                  /\ StateGroups'[Len(StateGroups')] = NewGroup(now, input.text)]_vars

\* C13: when the prompt of createGroup (the name), of deleteGroup (the
\* confirmation) or of addExtension (the pick) is dismissed, the command ends
\* with the commands' state, the provider's state and the persisted state as
\* they were, and globalState holds what it held.
C13_DismissedPromptChangesNothing ==
    [][/\ \A now \in 1..MaxClock :
             CreateGroup(Dismissed, now) => (StoreUnchanged /\ globalState' = globalState)
       /\ \A group \in VisibleGroupItems :
             /\ DeleteGroup(group, NoAnswer)
                   => (StoreUnchanged /\ globalState' = globalState)
             /\ AddExtension(group, [picked |-> FALSE, id |-> BuiltinExt])
                   => (StoreUnchanged /\ globalState' = globalState)]_vars

\* C13 witness: the confirmation of deleteGroup has been dismissed on a store
\* that holds a group with a member, persisted.
C13_Witness ==
    /\ lastOp.name = "deleteGroup"
    /\ lastOp.outcome = "dismissed"
    /\ persisted.present
    /\ \E i \in 1..Len(StateGroups) : StateGroups[i].extensions # <<>>
    /\ PersistedGroups = StateGroups

\* C14: a move of a member to the group it is in changes no group: the members
\* of that group keep their order and every other group is as it was, for the
\* dragAndDrop command and for a drop whose items all come from the group of
\* the node they are dropped on.
C14_SameGroupMoveIsNoOp ==
    [][/\ \A source \in VisibleExtItems, target \in VisibleGroupItems :
             (DragAndDrop(source, target) /\ source.groupId = target.groupId)
                => (StateGroups' = StateGroups /\ ProviderGroups' = ProviderGroups)
       /\ \A target \in VisibleItems :
             LET items == ParsePayload(dataTransfer.text)
             IN  (/\ HandleDrop(target)
                  /\ dataTransfer.set
                  /\ \A k \in 1..Len(items) : items[k].groupId = target.groupId)
                 => (StateGroups' = StateGroups /\ ProviderGroups' = ProviderGroups)]_vars

\* The groups of the three copies of the store are what they were.
GroupsUnchanged ==
    /\ StateGroups' = StateGroups
    /\ ProviderGroups' = ProviderGroups
    /\ PersistedGroups' = PersistedGroups

\* C15: a drop changes the store only when every dragged node was an extension
\* node and the target is a group node, or when one group node was dragged onto
\* a group node; after any other drag (an extension onto an extension node, a
\* group onto an extension node, groups mixed with extensions) the groups of
\* the commands' state, of the provider's state and of the persisted state are
\* as they were.
C15_OnlyListedDropsChangeTheStore ==
    [][\A target \in VisibleItems \cup {NoItem} :
          (HandleDrop(target) /\ lastOp.name = "handleDrag" /\ ~GroupsUnchanged)
             => \/ lastOp.outcome = "carried" /\ target.kind = "group"
                \/ lastOp.source.kind = "group" /\ target.kind = "group"]_vars

\* C16: addExtension and activateGroup given a group id that the store does not
\* hold report an error to the user, leave the store unchanged and issue no host
\* request.
C16_UnknownGroupIsReported ==
    [][\A group \in VisibleGroupItems :
          (IsArray(heap[state].groups) /\ FindIndex(StateGroups, group.groupId) = 0) =>
             /\ \A sel \in QuickPickResults :
                   (AddExtension(group, sel) /\ sel.picked)
                      => (notification' = "error" /\ StoreUnchanged /\ requests' = <<>>)
             /\ \A active, rejecting \in SUBSET ExtIds :
                   ActivateGroup(group, active, rejecting)
                      => (notification' = "error" /\ StoreUnchanged /\ requests' = <<>>)]_vars

\* C17: an export whose directory creation or file write fails leaves
\* lastSyncTime and the rest of the state as they were, in memory and in
\* persisted storage; lastSyncTime changes only when the export file is written.
C17_FailedExportLeavesSyncTime ==
    [][\A io \in {"ok", "mkdirThrows", "writeThrows"}, now \in 1..MaxClock :
          SyncSettings(io, now) =>
             /\ io # "ok" => StoreUnchanged
             /\ heap'[state'].lastSyncTime # heap[state].lastSyncTime => file' # file
             /\ PersistedState'.lastSyncTime # PersistedState.lastSyncTime
                   => file' # file]_vars

\* C18: when one group node has been dragged and is dropped on another group
\* node, the dragged group is relocated to the target's position in the group
\* list the tree shows, and the list is persisted.
C18_GroupDragReorders ==
    [][\A target \in VisibleGroupItems :
          LET gs == ProviderGroups
              si == FindIndex(gs, lastOp.source.groupId)
              ti == FindIndex(gs, target.groupId)
          IN  (/\ HandleDrop(target)
               /\ lastOp.name = "handleDrag"
               /\ lastOp.source.kind = "group"
               /\ si # 0 /\ ti # 0 /\ si # ti)
              => /\ Len(ProviderGroups') = Len(gs)
                 /\ ProviderGroups'[ti] = gs[si]
                 /\ RemoveAt(ProviderGroups', ti) = RemoveAt(gs, si)
                 /\ PersistedGroups' = ProviderGroups']_vars

\* C19: in a store with no groups, a createGroup followed at once by a confirmed
\* deleteGroup of the group it created leaves no group in the commands' state,
\* the provider's state and the persisted state; a confirmed deleteGroup of an
\* id that is absent leaves the list of groups unchanged.
C19_CreateThenDelete ==
    [][\A group \in VisibleGroupItems :
          DeleteGroup(group, "Yes") =>
             /\ (trip.legs = 1 /\ group.groupId = trip.from)
                   => /\ StateGroups' = <<>>
                      /\ ProviderGroups' = <<>>
                      /\ persisted'.present
                      /\ PersistedGroups' = <<>>
             /\ FindIndex(StateGroups, group.groupId) = 0
                   => GroupsUnchanged]_vars

\* C19 witness: the group just created in an empty store has been deleted.
C19_Witness ==
    /\ trip.legs = 2
    /\ lastOp.name = "deleteGroup"
    /\ lastOp.outcome = "done"
    /\ lastOp.source.groupId = trip.from
    /\ StateGroups = <<>>
    /\ persisted.present
    /\ PersistedGroups = <<>>

\* C20: after every completed operation the state object the command handlers
\* mutate, the state the tree provider projects and the value persisted under
\* 'extensionGroups' are equal, whether the store hands back the stored object
\* itself or a copy of it.
C20_ThreeCopiesEqual ==
    /\ heap[state] = heap[providerState]
    /\ PersistedState = heap[state]

\* Every extension of the drag payload is listed by a group of gs.
AllListed(items, gs) ==
    \A i \in 1..Len(items) :
        \E k \in 1..Len(gs) : Includes(gs[k].extensions, items[i].extensionId)

\* C22: after handleDrop on a node other than the Uncategorized node and the
\* items inside it, every extension of the drag payload is a member of a group,
\* in the provider's state and in the persisted state, also when the group of
\* the target was deleted while handleDrop awaited the payload. Stated for the
\* payloads whose extensions were all members of a group before the drop: no
\* drop turns a grouped extension into an uncategorized one.
C22_DropKeepsExtensionsGrouped ==
    [][(/\ HandleDropResume
        /\ pending.group.groupId # UncategorizedId
        /\ AllListed(ParsePayload(dataTransfer.text), ProviderGroups))
       => /\ AllListed(ParsePayload(dataTransfer.text), ProviderGroups')
          /\ AllListed(ParsePayload(dataTransfer.text), PersistedGroups')]_vars

\* What a command leaves of the store and the export file when it runs alone,
\* from start to end, with the host fulfilling every request; c is the
\* command's name, the tree node it is given and the time it reads.
RunAlone(c, w) ==
    LET gs == w.obj.groups.items
        gid == c.group.groupId
    IN  IF c.name = "activateGroup"
        THEN IF IsArray(w.obj.groups) /\ FindIndex(gs, gid) # 0
             THEN [w EXCEPT !.obj.groups = ArrayValue(FlipActive(gs, gid))]
             ELSE w
        ELSE IF c.name = "deleteGroup"
        THEN IF IsArray(w.obj.groups)
             THEN [w EXCEPT !.obj.groups = ArrayValue(WithoutGroup(gs, gid))]
             ELSE w
        ELSE IF c.name = "importSettings"
        THEN IF ImportOutcome(w.file) = "done"
             THEN [w EXCEPT !.obj = Parse(w.file.text)]
             ELSE w
        ELSE IF c.name = "syncSettings"
        THEN LET obj == [w.obj EXCEPT !.lastSyncTime = c.now]
             IN  [obj |-> obj, file |-> JsonFile(Stringify(obj))]
        ELSE w

\* The suspended command and the command that ran meanwhile.
SuspendedCommand == [name |-> pending.cmd, group |-> pending.group, now |-> pending.now]
OtherCommand == [name |-> pending.other.name, group |-> pending.other.group, now |-> clock]

\* The persisted text after the two commands run one after the other.
SerialTexts ==
    {Stringify(RunAlone(OtherCommand, RunAlone(SuspendedCommand, pending.start)).obj),
     Stringify(RunAlone(SuspendedCommand, RunAlone(OtherCommand, pending.start)).obj)}

\* C21: when activateGroup or syncSettings was suspended at an await while
\* importSettings, deleteGroup or activateGroup ran to completion, the state
\* persisted when the suspended command ends is the one that running the two
\* commands one after the other, in one of the two orders, persists.
C21_OverlapIsSerializable ==
    [][(/\ ActivateGroupResume({}) \/ SyncSettingsResume
        /\ pending.other.name # "none")
       => /\ persisted'.present
          /\ persisted'.text \in SerialTexts]_vars

====
